---- MODULE Spec2Model ----
(***************************************************************************)
(* Cross-channel advertising dashboard (src/app.py): one run of main()     *)
(* over the rows the loaders return, as a state machine.                   *)
(*                                                                         *)
(* Numbers.  A pandas/Python float is modelled as an exact fraction        *)
(* [k |-> "num", n, d] (value n/d, d > 0), or NaN, or Inf, the two         *)
(* non-finite results a float division by zero produces.  round() and the  *)
(* f-string formats round half to even on the exact value; the binary      *)
(* representation error of a float is not modelled.  spend is a decimal    *)
(* currency amount and is carried in cents, [k |-> "num", n |-> c, d |->   *)
(* 100].                                                                   *)
(***************************************************************************)
EXTENDS Integers, Sequences, FiniteSets, TLC

(* ---- bounds of the model ---- *)
\* rows in the unified_ads table
MaxRows == 2
\* dates are 1..MaxDate
MaxDate == 2
\* platforms are the first NumPlatforms channel names
NumPlatforms == 2
\* a row's impressions, clicks, conversions are 0 or the bound; its spend is
\* 0 or MaxSpend cents
MaxImpressions == 1
MaxClicks == 1
MaxSpend == 1
MaxConversions == 1
\* inputs of the share-of-spend specification: platforms, and cents per platform
MaxSharePlatforms == 4
MaxPlatformSpend == 7

(* ---- values ---- *)
\* None, and a local variable not assigned yet
None == [k |-> "none"]
\* a DataFrame with its rows in order
Frame(rows) == [k |-> "frame", rows |-> rows]
\* a plotly figure with its traces in order
Figure(traces) == [k |-> "figure", data |-> traces]
\* a cell holding a formatted string
Str(s) == [k |-> "str", s |-> s]
NaN == [k |-> "nan", n |-> 0, d |-> 1]
Inf == [k |-> "inf", n |-> 0, d |-> 1]
Num(a, b) == [k |-> "num", n |-> a, d |-> b]
IsNum(x) == x.k = "num"
\* pd.notna
notna(x) == x.k # "nan"
\* truthiness of a number: non-zero
Truthy(x) == IsNum(x) /\ x.n # 0

Pow10(e) == IF e = 0 THEN 1 ELSE IF e = 1 THEN 10 ELSE IF e = 2 THEN 100 ELSE 1000

\* float addition
Add(x, y) ==
    IF x.k = "nan" \/ y.k = "nan" THEN NaN
    ELSE IF x.k = "inf" \/ y.k = "inf" THEN Inf
    ELSE IF x.d = y.d THEN Num(x.n + y.n, x.d)
    ELSE Num(x.n * y.d + y.n * x.d, x.d * y.d)

\* float division of non-negative values: x/0 is inf, 0/0 and x/nan are nan
Div(x, y) ==
    IF x.k = "nan" \/ y.k = "nan" THEN NaN
    ELSE IF x.k = "inf" THEN (IF y.k = "inf" THEN NaN ELSE Inf)
    ELSE IF y.k = "inf" THEN Num(0, 1)
    ELSE IF y.n = 0 THEN (IF x.n = 0 THEN NaN ELSE Inf)
    ELSE Num(x.n * y.d, x.d * y.n)

Times100(x) == IF IsNum(x) THEN Num(x.n * 100, x.d) ELSE x

\* nearest integer to a/b (a >= 0, b > 0), ties to the even one
RoundHalfEven(a, b) ==
    LET q == a \div b
        r == a % b
    IN  IF 2 * r < b THEN q
        ELSE IF 2 * r > b THEN q + 1
        ELSE IF q % 2 = 0 THEN q ELSE q + 1

\* Series.round(decimals): NaN and inf pass through
Round(x, decimals) ==
    IF IsNum(x)
    THEN Num(RoundHalfEven(x.n * Pow10(decimals), x.d), Pow10(decimals))
    ELSE x

(* ---- f-string formats ---- *)
Pad(n, width) ==
    IF width = 0 THEN ""
    ELSE IF width = 1 THEN ToString(n)
    ELSE IF width = 2 THEN (IF n < 10 THEN "0" \o ToString(n) ELSE ToString(n))
    ELSE IF n < 10 THEN "00" \o ToString(n)
    ELSE IF n < 100 THEN "0" \o ToString(n)
    ELSE ToString(n)

RECURSIVE Grouped(_)
\* the "," option: thousands separators
Grouped(n) ==
    IF n < 1000 THEN ToString(n)
    ELSE Grouped(n \div 1000) \o "," \o Pad(n % 1000, 3)

\* format(x, ",.{decimals}f") when comma, else format(x, ".{decimals}f")
Fixed(x, decimals, comma) ==
    IF x.k = "nan" THEN "nan"
    ELSE IF x.k = "inf" THEN "inf"
    ELSE LET s == RoundHalfEven(x.n * Pow10(decimals), x.d)
             whole == s \div Pow10(decimals)
             frac == s % Pow10(decimals)
         IN  (IF comma THEN Grouped(whole) ELSE ToString(whole))
             \o (IF decimals = 0 THEN "" ELSE "." \o Pad(frac, decimals))

\* the dash shown for a missing value
Placeholder == "-"

(* ---- the data ---- *)
PlatformNames == <<"Facebook", "Google", "TikTok">>
Platforms == {PlatformNames[i] : i \in 1..NumPlatforms}
PlatformRank(p) == CHOOSE i \in 1..Len(PlatformNames) : PlatformNames[i] = p
Dates == 1..MaxDate

\* a row of unified_ads: the identifier columns take no part in any computation
UnifiedRecord ==
    [date : Dates, platform : Platforms,
     impressions : {0, MaxImpressions}, clicks : {0, MaxClicks},
     spend : {0, MaxSpend}, conversions : {0, MaxConversions}]

\* the rows a table can hold, in the order the store keeps them
Tables == UNION {[1..n -> UnifiedRecord] : n \in 0..MaxRows}

PermsOf(t) == {[i \in DOMAIN t |-> t[p[i]]] : p \in Permutations(DOMAIN t)}

KeyLeq(a, b) ==
    \/ a.date < b.date
    \/ a.date = b.date /\ PlatformRank(a.platform) <= PlatformRank(b.platform)

IsOrdered(s) == \A i \in 1..(Len(s) - 1) : KeyLeq(s[i], s[i + 1])

\* the store returns the rows in any order
Unordered(t) == PermsOf(t)

\* "ORDER BY date, platform": the results the query may return for table t;
\* rows with equal keys come in any order
OrderBy(t) == {s \in PermsOf(t) : IsOrdered(s)}

RECURSIVE SumCol(_, _)
\* Series.sum() of an integer column
SumCol(rows, col) ==
    IF rows = <<>> THEN 0 ELSE rows[1][col] + SumCol(Tail(rows), col)

\* the column as floats: spend is in cents
Total(rows, col) == Num(SumCol(rows, col), IF col = "spend" THEN 100 ELSE 1)

\* the distinct values of a set of platforms, in sorted order
SortedPlatforms(S) ==
    CHOOSE s \in [1..Cardinality(S) -> S] :
        \A i, j \in DOMAIN s : i < j => PlatformRank(s[i]) < PlatformRank(s[j])

(* ---- the backing store and the loaders ---- *)
URLs == {"", "postgresql://host/db", "mysql://host/db"}
\* url.strip().startswith("postgresql")
StartsWithPostgresql(url) == url = "postgresql://host/db"
Names == {"", "set"}

RECURSIVE Unique(_)
\* Series.unique(): the distinct values in order of first appearance
Unique(s) ==
    IF s = <<>> THEN <<>>
    ELSE LET front == Unique(SubSeq(s, 1, Len(s) - 1))
             last == s[Len(s)]
         IN  IF \E i \in DOMAIN front : front[i] = last THEN front
             ELSE Append(front, last)

Column(rows, col) == [i \in DOMAIN rows |-> rows[i][col]]

KeyOf(r) == <<r.date, r.platform>>
KeyLess(a, b) ==
    \/ a[1] < b[1]
    \/ a[1] = b[1] /\ PlatformRank(a[2]) < PlatformRank(b[2])
\* the group keys of groupby(["date", "platform"]), sorted
SortedKeys(rows) ==
    LET K == {KeyOf(rows[i]) : i \in DOMAIN rows}
    IN  CHOOSE s \in [1..Cardinality(K) -> K] :
            \A i, j \in DOMAIN s : i < j => KeyLess(s[i], s[j])

WithKey(rows, key) == SelectSeq(rows, LAMBDA r : KeyOf(r) = key)
WithPlatform(rows, p) == SelectSeq(rows, LAMBDA r : r.platform = p)

\* unified_ads_daily_summary: unified_ads rolled up to one row per date and
\* platform, in the order the store keeps it
DailySummary(t) ==
    LET keys == SortedKeys(t)
        rollup == [i \in DOMAIN keys |->
                    [date |-> keys[i][1], platform |-> keys[i][2],
                     spend |-> SumCol(WithKey(t, keys[i]), "spend"),
                     conversions |-> SumCol(WithKey(t, keys[i]), "conversions")]]
    IN  PermsOf(rollup)

\* the backing store: whether it can be reached, whether unified_ads exists,
\* and whether the daily summary can be queried ("unavailable": the query
\* fails, the table is missing or the driver is) and holds rows
StoreStates ==
    [reachable : BOOLEAN, exists : BOOLEAN,
     summary : {"unavailable", "unpopulated", "populated"}]

\* the store with the rows unified_ads holds when the queries run
WithRows(st, t) ==
    [reachable |-> st.reachable, exists |-> st.exists, summary |-> st.summary,
     unified_ads |-> t]

Returned(v) == [raised |-> FALSE, value |-> v]
Raised == [raised |-> TRUE, value |-> None]

\* pd.read_sql / client.query of the unified query
QueryUnified(db) ==
    IF ~db.reachable \/ ~db.exists THEN {Raised}
    ELSE {Returned(Frame(s)) : s \in OrderBy(db.unified_ads)}

\* pd.read_sql / client.query of the daily-summary query
QueryDaily(db) ==
    IF ~db.reachable \/ db.summary = "unavailable" THEN {Raised}
    ELSE IF db.summary = "unpopulated" THEN {Returned(Frame(<<>>))}
    ELSE UNION {{Returned(Frame(s)) : s \in OrderBy(t)} : t \in DailySummary(db.unified_ads)}

\* the loader lets the exception out
Propagate(outcomes) == outcomes

\* try: ... except Exception: return None
ExceptReturnNone(outcomes) ==
    {IF o.raised THEN Returned(None) ELSE o : o \in outcomes}

load_unified_from_postgres(url, db) ==
    IF url = "" \/ ~StartsWithPostgresql(url) THEN {Returned(None)}
    ELSE QueryUnified(db)

load_daily_from_postgres(url, db) ==
    IF url = "" \/ ~StartsWithPostgresql(url) THEN {Returned(None)}
    ELSE ExceptReturnNone(QueryDaily(db))

load_unified_from_bigquery(proj, dset, db) ==
    IF proj = "" \/ dset = "" THEN {Returned(None)}
    ELSE QueryUnified(db)

load_daily_from_bigquery(proj, dset, db) ==
    IF proj = "" \/ dset = "" THEN {Returned(None)}
    ELSE ExceptReturnNone(QueryDaily(db))

(* ---- the aggregations of main ---- *)
\* x / y if y else 0
GuardedDiv(x, y) == IF Truthy(y) THEN Div(x, y) ELSE Num(0, 1)

overall_cpc_of(spend, clicks) == GuardedDiv(spend, clicks)
overall_cpa_of(spend, conversions) == GuardedDiv(spend, conversions)
overall_ctr_of(clicks, impressions) ==
    IF Truthy(impressions) THEN Times100(Div(clicks, impressions)) ELSE Num(0, 1)

\* groupby takes the first row of each group instead of the sum
GroupFirst(rows, col) ==
    IF rows = <<>> THEN Num(0, 1)
    ELSE Num(rows[1][col], IF col = "spend" THEN 100 ELSE 1)

\* the "sum" aggregation of one group
GroupSum(rows, col) == Total(rows, col)

\* df.groupby("platform", as_index=False).agg(... "sum")
GroupByPlatform(rows) ==
    LET ps == SortedPlatforms({rows[i].platform : i \in DOMAIN rows})
    IN  [i \in DOMAIN ps |->
            LET sub == WithPlatform(rows, ps[i])
            IN  [platform |-> ps[i],
                 spend |-> GroupSum(sub, "spend"),
                 impressions |-> GroupSum(sub, "impressions"),
                 clicks |-> GroupSum(sub, "clicks"),
                 conversions |-> GroupSum(sub, "conversions")]]

\* Series.replace(0, float("nan"))
Replace0NaN(x) == IF IsNum(x) /\ x.n = 0 THEN NaN ELSE x

ctr_pct_of(clicks, impressions) == Round(Times100(Div(clicks, impressions)), 2)

\* the division without the replace
CostNoReplace(spend, conversions) == Round(Div(spend, conversions), 2)

cost_per_conv_of(spend, conversions) ==
    Round(Div(spend, Replace0NaN(conversions)), 2)

\* the share truncated instead of rounded
ShareTruncated(spend, total) ==
    LET x == Times100(Div(spend, total))
    IN  IF IsNum(x) THEN Num((x.n * 10) \div x.d, 10) ELSE x

share_of_spend_of(spend, total) == Round(Times100(Div(spend, total)), 1)

RECURSIVE SeriesSum(_)
\* Series.sum() of a float column; NaN entries are skipped
SeriesSum(xs) ==
    IF xs = <<>> THEN Num(0, 1)
    ELSE IF xs[1].k = "nan" THEN SeriesSum(Tail(xs))
    ELSE Add(xs[1], SeriesSum(Tail(xs)))

\* by_platform with its three derived columns
PlatformSummary(rows) ==
    LET g == GroupByPlatform(rows)
        total == SeriesSum(Column(g, "spend"))
    IN  [i \in DOMAIN g |->
            [platform |-> g[i].platform,
             spend |-> g[i].spend,
             impressions |-> g[i].impressions,
             clicks |-> g[i].clicks,
             conversions |-> g[i].conversions,
             ctr_pct |-> ctr_pct_of(g[i].clicks, g[i].impressions),
             cost_per_conv |-> cost_per_conv_of(g[i].spend, g[i].conversions),
             share_of_spend |-> share_of_spend_of(g[i].spend, total)]]

(* ---- the display table ---- *)
\* the formatting of one row of display_df
DisplayRow(r) ==
    [platform |-> r.platform,
     spend |-> Str("$" \o Fixed(r.spend, 0, TRUE)),
     impressions |-> Str(Fixed(r.impressions, 0, TRUE)),
     clicks |-> Str(Fixed(r.clicks, 0, TRUE)),
     conversions |-> Str(Fixed(r.conversions, 0, TRUE)),
     ctr_pct |-> Str(Fixed(r.ctr_pct, 2, FALSE) \o "%"),
     cost_per_conv |-> Str(IF notna(r.cost_per_conv)
                           THEN "$" \o Fixed(r.cost_per_conv, 2, FALSE)
                           ELSE Placeholder),
     share_of_spend |-> Str(Fixed(r.share_of_spend, 1, FALSE) \o "%")]

DisplayRows(rows) == [i \in DOMAIN rows |-> DisplayRow(rows[i])]

\* display_df is the frame itself: the column assignments write into it
SameFrame(frame) == [rows |-> frame.rows, shared |-> TRUE]

\* by_platform[[...]].copy(): a new frame
CopyFrame(frame) == [rows |-> frame.rows, shared |-> FALSE]

(* ---- the time series ---- *)
\* one go.Scatter / px.line series per platform, in order of first appearance
Traces(rows, ycol) ==
    LET ps == Unique(Column(rows, "platform"))
    IN  [i \in DOMAIN ps |->
            LET sub == WithPlatform(rows, ps[i])
            IN  [name |-> ps[i], x |-> Column(sub, "date"), y |-> Column(sub, ycol)]]

\* the groups keep the date only
GroupByDateOnly(rows) ==
    LET ds == Unique(Column(rows, "date"))
    IN  [i \in DOMAIN ds |->
            LET sub == SelectSeq(rows, LAMBDA r : r.date = ds[i])
            IN  [date |-> ds[i], platform |-> sub[1].platform,
                 spend |-> SumCol(sub, "spend"),
                 conversions |-> SumCol(sub, "conversions")]]

\* df.groupby(["date", "platform"]).agg({"spend": "sum", "conversions": "sum"}).reset_index()
GroupByDatePlatform(rows) ==
    LET keys == SortedKeys(rows)
    IN  [i \in DOMAIN keys |->
            [date |-> keys[i][1], platform |-> keys[i][2],
             spend |-> SumCol(WithKey(rows, keys[i]), "spend"),
             conversions |-> SumCol(WithKey(rows, keys[i]), "conversions")]]

\* the test forgets df.empty
NoDataNoneOnly(frame) == frame = None

\* df is None or df.empty
NoData(frame) == frame = None \/ frame.rows = <<>>

\* by_platform[[...]].dropna(subset=["cost_per_conv"])
DropNaCost(rows) ==
    LET kept == SelectSeq(rows, LAMBDA r : notna(r.cost_per_conv))
    IN  [i \in DOMAIN kept |->
            [platform |-> kept[i].platform, spend |-> kept[i].spend,
             conversions |-> kept[i].conversions,
             cost_per_conv |-> kept[i].cost_per_conv]]

(* ---- one run of main() ---- *)
SUPABASE == "Supabase (PostgreSQL)"
BIGQUERY == "BigQuery"

\* the values of use_supabase, database_url, project and dataset when the
\* sidebar is done: the settings of env/secrets, the radio, the text inputs
Settings ==
    {[use_supabase |-> choice,
      database_url |-> IF choice = SUPABASE /\ env_url = "" THEN typed_url ELSE env_url,
      project |-> IF choice = BIGQUERY /\ env_project = ""
                  THEN typed_project ELSE env_project,
      dataset |-> IF choice = BIGQUERY /\ env_dataset = ""
                  THEN typed_dataset ELSE env_dataset] :
        env_url \in URLs, typed_url \in URLs, choice \in {SUPABASE, BIGQUERY},
        env_project \in Names, typed_project \in Names,
        env_dataset \in Names, typed_dataset \in Names}

VARIABLES
    store,              \* the backing store of this run
    pc,                 \* the section of main about to run
    df, daily, data_source_label,
    page,               \* what st.* has put on the page, in order
    tot_spend, tot_impressions, tot_clicks, tot_conversions,
    overall_cpc, overall_cpa, overall_ctr,
    metrics,            \* the six st.metric strings
    by_platform, display_df,
    fig_time, fig_conv_time, daily_alt,
    eff, fig_cpa,
    spend_col, share_col    \* a by_platform spend column and its share_of_spend

loaded == <<df, daily, data_source_label>>
kpis == <<tot_spend, tot_impressions, tot_clicks, tot_conversions,
          overall_cpc, overall_cpa, overall_ctr, metrics>>
charts == <<fig_time, fig_conv_time, daily_alt>>
efficiency == <<eff, fig_cpa>>
share == <<spend_col, share_col>>
vars == <<store, pc, loaded, page, kpis, by_platform, display_df, charts,
          efficiency, share>>

\* main after the title and the sidebar; use_supabase, database_url, project
\* and dataset are read by the load alone and are not kept
Init ==
    /\ store \in StoreStates
    /\ pc = "load"
    /\ df = None /\ daily = None /\ data_source_label = ""
    /\ page = <<"title", "caption">>
    /\ tot_spend = None /\ tot_impressions = None
    /\ tot_clicks = None /\ tot_conversions = None
    /\ overall_cpc = None /\ overall_cpa = None /\ overall_ctr = None
    /\ metrics = None
    /\ by_platform = None /\ display_df = None
    /\ fig_time = None /\ fig_conv_time = None /\ daily_alt = None
    /\ eff = None /\ fig_cpa = None
    /\ spend_col = <<>> /\ share_col = <<>>

\* the try block of either source: the unified load, then the daily load
TryLoad(label, unified, dailies) ==
    /\ data_source_label' = label
    /\ \E u \in unified :
          IF u.raised
          THEN /\ page' = page \o <<"error", "info">>
               /\ pc' = "done"
               /\ UNCHANGED <<df, daily>>
          ELSE \E d \in dailies :
                  IF d.raised
                  THEN /\ page' = page \o <<"error", "info">>
                       /\ pc' = "done"
                       /\ df' = u.value
                       /\ UNCHANGED daily
                  ELSE /\ df' = u.value
                       /\ daily' = d.value
                       /\ pc' = "check"
                       /\ UNCHANGED page

LoadSupabase ==
    /\ pc = "load"
    /\ \E url \in {c.database_url : c \in
                    {c \in Settings : c.use_supabase = SUPABASE /\ c.database_url # ""}} :
       \E t \in Tables :
          TryLoad("Supabase (unified_ads)",
                  load_unified_from_postgres(url, WithRows(store, t)),
                  load_daily_from_postgres(url, WithRows(store, t)))
    /\ UNCHANGED <<store, kpis, by_platform, display_df, charts, efficiency, share>>

LoadBigQuery ==
    /\ pc = "load"
    /\ \E pd \in {<<c.project, c.dataset>> : c \in
                    {c \in Settings : c.use_supabase # SUPABASE
                                      /\ c.project # "" /\ c.dataset # ""}} :
       \E t \in Tables :
          TryLoad("BigQuery",
                  load_unified_from_bigquery(pd[1], pd[2], WithRows(store, t)),
                  load_daily_from_bigquery(pd[1], pd[2], WithRows(store, t)))
    /\ UNCHANGED <<store, kpis, by_platform, display_df, charts, efficiency, share>>

\* no connection settings: instructions, then return
NoSettings ==
    /\ pc = "load"
    /\ \E c \in Settings :
          /\ ~(c.use_supabase = SUPABASE /\ c.database_url # "")
          /\ ~(c.use_supabase # SUPABASE /\ c.project # "" /\ c.dataset # "")
    /\ page' = page \o <<"info", "markdown">>
    /\ pc' = "done"
    /\ UNCHANGED <<store, loaded, kpis, by_platform, display_df, charts,
                   efficiency, share>>

EmptyCheck ==
    /\ pc = "check"
    /\ IF NoData(df)
       THEN /\ page' = Append(page, "warning")
            /\ pc' = "done"
       ELSE /\ pc' = "kpis"
            /\ UNCHANGED page
    /\ UNCHANGED <<store, loaded, kpis, by_platform, display_df, charts,
                   efficiency, share>>

\* a frame's rows; the operations on None fail in Python and never run there
RowsOf(frame) == IF frame = None THEN <<>> ELSE frame.rows

Kpis ==
    /\ pc = "kpis"
    /\ LET rows == RowsOf(df)
           s == Total(rows, "spend")
           i == Total(rows, "impressions")
           c == Total(rows, "clicks")
           v == Total(rows, "conversions")
       IN  /\ tot_spend' = s
           /\ tot_impressions' = i
           /\ tot_clicks' = c
           /\ tot_conversions' = v
           /\ overall_cpc' = overall_cpc_of(s, c)
           /\ overall_cpa' = overall_cpa_of(s, v)
           /\ overall_ctr' = overall_ctr_of(c, i)
           /\ metrics' =
                [total_spend |-> "$" \o Fixed(s, 0, TRUE),
                 impressions |-> Fixed(i, 0, TRUE),
                 clicks |-> Fixed(c, 0, TRUE),
                 conversions |-> Fixed(v, 0, TRUE),
                 ctr |-> Fixed(overall_ctr_of(c, i), 2, FALSE) \o "%",
                 cost_per_conversion |-> "$" \o Fixed(overall_cpa_of(s, v), 2, TRUE)]
    /\ page' = page \o <<"subheader", "metrics", "divider">>
    /\ pc' = "by_platform"
    /\ UNCHANGED <<store, loaded, by_platform, display_df, charts, efficiency, share>>

ByPlatform ==
    /\ pc = "by_platform"
    /\ by_platform' = Frame(PlatformSummary(RowsOf(df)))
    /\ page' = page \o <<"subheader", "fig_spend", "fig_conv">>
    /\ pc' = "display"
    /\ UNCHANGED <<store, loaded, kpis, display_df, charts, efficiency, share>>

DisplayTable ==
    /\ pc = "display"
    /\ LET selected == CopyFrame(by_platform)
           formatted == Frame(DisplayRows(selected.rows))
       IN  /\ display_df' = formatted
           /\ by_platform' = IF selected.shared THEN formatted ELSE by_platform
    /\ page' = page \o <<"dataframe", "divider">>
    /\ pc' = "over_time"
    /\ UNCHANGED <<store, loaded, kpis, charts, efficiency, share>>

OverTime ==
    /\ pc = "over_time"
    /\ IF daily # None /\ daily.rows # <<>>
       THEN /\ fig_time' = Figure(Traces(daily.rows, "spend"))
            /\ fig_conv_time' = Figure(Traces(daily.rows, "conversions"))
            /\ page' = page \o <<"subheader", "fig_time", "fig_conv_time", "divider">>
            /\ UNCHANGED daily_alt
       ELSE /\ daily_alt' = Frame(GroupByDatePlatform(RowsOf(df)))
            /\ fig_time' = Figure(Traces(GroupByDatePlatform(RowsOf(df)), "spend"))
            /\ page' = page \o <<"subheader", "fig_time", "divider">>
            /\ UNCHANGED fig_conv_time
    /\ pc' = "efficiency"
    /\ UNCHANGED <<store, loaded, kpis, by_platform, display_df, efficiency, share>>

Efficiency ==
    /\ pc = "efficiency"
    /\ LET kept == DropNaCost(by_platform.rows)
       IN  /\ eff' = Frame(kept)
           /\ IF kept # <<>>
              THEN /\ fig_cpa' = Figure(<<[x |-> Column(kept, "platform"),
                                           y |-> Column(kept, "cost_per_conv")]>>)
                   /\ page' = page \o <<"subheader", "fig_cpa", "divider", "caption">>
              ELSE /\ page' = page \o <<"subheader", "divider", "caption">>
                   /\ UNCHANGED fig_cpa
    /\ pc' = "done"
    /\ UNCHANGED <<store, loaded, kpis, by_platform, display_df, charts, share>>

Next ==
    \/ LoadSupabase
    \/ LoadBigQuery
    \/ NoSettings
    \/ EmptyCheck
    \/ Kpis
    \/ ByPlatform
    \/ DisplayTable
    \/ OverTime
    \/ Efficiency

Spec == Init /\ [][Next]_vars

(* ---- share_of_spend alone, over a by_platform spend column ---- *)
\* the spend column of by_platform after the group-by, in cents
SpendColumns ==
    UNION {[1..n -> 0..MaxPlatformSpend] : n \in 1..MaxSharePlatforms}

ShareInit ==
    /\ store \in {s \in StoreStates : s.reachable /\ s.exists /\ s.summary = "populated"}
    /\ pc = "share"
    /\ df = None /\ daily = None /\ data_source_label = ""
    /\ page = <<>>
    /\ tot_spend = None /\ tot_impressions = None
    /\ tot_clicks = None /\ tot_conversions = None
    /\ overall_cpc = None /\ overall_cpa = None /\ overall_ctr = None
    /\ metrics = None
    /\ by_platform = None /\ display_df = None
    /\ fig_time = None /\ fig_conv_time = None /\ daily_alt = None
    /\ eff = None /\ fig_cpa = None
    /\ spend_col \in SpendColumns
    /\ share_col = <<>>

\* by_platform["share_of_spend"] = (spend / spend.sum() * 100).round(1)
AttachShare ==
    /\ pc = "share"
    /\ LET spend == [i \in DOMAIN spend_col |-> Num(spend_col[i], 100)]
       IN  share_col' = [i \in DOMAIN spend |->
                            share_of_spend_of(spend[i], SeriesSum(spend))]
    /\ pc' = "shared"
    /\ UNCHANGED <<store, loaded, page, kpis, by_platform, display_df, charts,
                   efficiency, spend_col>>

NextShare == AttachShare

SpecShare == ShareInit /\ [][NextShare]_vars

(* ---- the claims ---- *)
IsZero(x) == IsNum(x) /\ x.n = 0
Assigned(v) == v # None
HasData == df # None /\ df.rows # <<>>
Indices(rows, p) == {i \in DOMAIN rows : rows[i].platform = p}

RECURSIVE SumAt(_, _, _)
\* the sum of a column over a set of row indices
SumAt(rows, col, I) ==
    IF I = {} THEN 0
    ELSE LET i == CHOOSE j \in I : TRUE
         IN  rows[i][col] + SumAt(rows, col, I \ {i})

Abs(z) == IF z < 0 THEN -z ELSE z
\* equality of two finite values
NumEq(x, y) == IsNum(x) /\ IsNum(y) /\ x.n * y.d = y.n * x.d

\* C1: every platform row whose summed impressions are 0 has ctr_pct = 0, a
\* computed zero and neither NaN nor infinity, whatever its clicks are.
C1_ZeroImpressionsCtrIsZero ==
    Assigned(by_platform) =>
        \A i \in DOMAIN by_platform.rows :
            IsZero(by_platform.rows[i].impressions)
                => IsZero(by_platform.rows[i].ctr_pct)

\* C2: in the displayed table, a platform with 0 conversions has the absent
\* marker as cost_per_conv and shows the placeholder; a platform with
\* conversions has spend/conversions to the nearest cent and shows it as a
\* dollar amount.
C2_CostPerConversion ==
    Assigned(display_df) =>
        \A i \in DOMAIN by_platform.rows :
            LET r == by_platform.rows[i]
                shown == display_df.rows[i].cost_per_conv
                cents == r.cost_per_conv.n
            IN  IF IsZero(r.conversions)
                THEN r.cost_per_conv = NaN /\ shown = Str(Placeholder)
                ELSE /\ IsNum(r.cost_per_conv) /\ r.cost_per_conv.d = 100
                     /\ 2 * Abs(cents * r.conversions.n - r.spend.n) <= r.conversions.n
                     /\ shown = Str("$" \o ToString(cents \div 100) \o "."
                                    \o (IF cents % 100 < 10 THEN "0" ELSE "")
                                    \o ToString(cents % 100))

C2_Witness ==
    /\ Assigned(display_df)
    /\ \E i, j \in DOMAIN by_platform.rows :
          /\ IsZero(by_platform.rows[i].conversions)
          /\ by_platform.rows[i].spend.n > 0
          /\ display_df.rows[i].cost_per_conv = Str(Placeholder)
          /\ by_platform.rows[j].conversions.n > 0
          /\ by_platform.rows[j].cost_per_conv.n > 0

\* C3: when the conversions of the whole record set are 0 the overall
\* cost-per-conversion is the absent marker (not 0, not infinity), and when
\* the impressions are 0 the overall CTR is 0.
C3_OverallZeroGuard ==
    Assigned(overall_cpa) =>
        /\ IsZero(tot_conversions) => overall_cpa = NaN
        /\ IsZero(tot_impressions) => IsZero(overall_ctr)

\* C4: the per-platform sums of spend, impressions, clicks and conversions add
\* up to the overall totals, and every input record belongs to exactly one
\* platform row.
C4_PlatformSumsAddUp ==
    Assigned(by_platform) =>
        /\ NumEq(SeriesSum(Column(by_platform.rows, "spend")), tot_spend)
        /\ NumEq(SeriesSum(Column(by_platform.rows, "impressions")), tot_impressions)
        /\ NumEq(SeriesSum(Column(by_platform.rows, "clicks")), tot_clicks)
        /\ NumEq(SeriesSum(Column(by_platform.rows, "conversions")), tot_conversions)
        /\ \A k \in DOMAIN df.rows :
              Cardinality({i \in DOMAIN by_platform.rows :
                            by_platform.rows[i].platform = df.rows[k].platform}) = 1

C4_Witness ==
    /\ Assigned(by_platform)
    /\ Len(by_platform.rows) = 2
    /\ \A i \in DOMAIN by_platform.rows : by_platform.rows[i].spend.n > 0

\* the sum of a share_of_spend column, in tenths of a percent
ShareTenths(col) == LET t == SeriesSum(col) IN (t.n * 10) \div t.d

RECURSIVE SpendTotal(_)
\* the total of a spend column, in cents
SpendTotal(col) == IF col = <<>> THEN 0 ELSE col[1] + SpendTotal(Tail(col))

\* C5 as stated: whenever total spend > 0 the rounded shares sum to within 0.1
\* of 100, for any number of platforms.
C5_SharesWithinTenth ==
    (pc = "shared" /\ SpendTotal(spend_col) > 0)
        => Abs(ShareTenths(share_col) - 1000) <= 1

\* C5 amended: whenever total spend > 0 the rounded shares sum to within 0.05
\* per platform of 100 (so within 0.1 of 100 for up to three platforms).
C5_SharesWithinHalfTenthEach ==
    (pc = "shared" /\ SpendTotal(spend_col) > 0)
        => /\ \A i \in DOMAIN share_col : IsNum(share_col[i]) /\ share_col[i].d = 10
           /\ 2 * Abs(ShareTenths(share_col) - 1000) <= Len(share_col)

C5_Witness ==
    /\ pc = "shared"
    /\ Len(share_col) = 3
    /\ SpendTotal(spend_col) > 0
    /\ ShareTenths(share_col) = 999

KeysOf(rows) == {<<rows[i].date, rows[i].platform>> : i \in DOMAIN rows}
AtKey(rows, key) == {i \in DOMAIN rows : <<rows[i].date, rows[i].platform>> = key}

\* C6: the fallback time series has exactly one row for each (date, platform)
\* pair of the input and no other row, with the sums of spend and conversions
\* over exactly the records of that pair.
C6_FallbackOneRowPerPair ==
    Assigned(daily_alt) =>
        /\ KeysOf(daily_alt.rows) = KeysOf(df.rows)
        /\ Len(daily_alt.rows) = Cardinality(KeysOf(df.rows))
        /\ \A i \in DOMAIN daily_alt.rows :
              LET I == AtKey(df.rows, <<daily_alt.rows[i].date, daily_alt.rows[i].platform>>)
              IN  /\ daily_alt.rows[i].spend = SumAt(df.rows, "spend", I)
                  /\ daily_alt.rows[i].conversions = SumAt(df.rows, "conversions", I)

C6_Witness ==
    /\ Assigned(daily_alt)
    /\ Len(df.rows) = 2
    /\ df.rows[1].date = df.rows[2].date
    /\ df.rows[1].platform # df.rows[2].platform
    /\ Len(daily_alt.rows) = 2
    /\ daily_alt.rows[1].spend > 0

InPage(tag) == \E i \in DOMAIN page : page[i] = tag

\* C7: a daily-summary load that fails shows no error and stops nothing: once
\* the unified load has returned rows, daily is absent, the time series comes
\* from the raw records, and the KPI and per-platform sections are rendered.
C7_DailyFailureFallsBack ==
    (store.summary = "unavailable" /\ HasData) =>
        /\ daily = None
        /\ ~InPage("error")
        /\ pc = "done" =>
              /\ Assigned(daily_alt)
              /\ fig_time = Figure(Traces(daily_alt.rows, "spend"))
              /\ fig_conv_time = None
              /\ InPage("metrics") /\ InPage("dataframe") /\ InPage("fig_time")
              /\ page[Len(page)] = "caption"

C7_Witness ==
    /\ store.summary = "unavailable" /\ HasData
    /\ pc = "done"
    /\ Assigned(daily_alt)
    /\ Len(fig_time.data) = 2

Ascending(x) == \A i \in 1..(Len(x) - 1) : x[i] <= x[i + 1]

\* the series of one figure over the dataset it was drawn from
SeriesOk(fig, rows) ==
    /\ \A i \in DOMAIN fig : Ascending(fig[i].x)
    /\ {fig[i].name : i \in DOMAIN fig} = {rows[i].platform : i \in DOMAIN rows}
    /\ \A i, j \in DOMAIN fig : fig[i].name = fig[j].name => i = j
    /\ \A i \in DOMAIN fig : Len(fig[i].x) = Cardinality(Indices(rows, fig[i].name))

Aggregated ==
    \/ Assigned(tot_spend) \/ Assigned(overall_cpa) \/ Assigned(metrics)
    \/ Assigned(by_platform) \/ Assigned(display_df)
    \/ Assigned(fig_time) \/ Assigned(daily_alt) \/ Assigned(eff)

\* C9: no aggregation runs unless a load returned a non-empty record set: a
\* run with an absent or empty record set ends in the "no data" warning, and
\* a run whose load raised or that had no settings ends with nothing computed.
C9_NoAggregationWithoutData ==
    /\ Aggregated => (HasData /\ ~InPage("error") /\ ~InPage("warning"))
    /\ (pc = "done" /\ ~HasData) =>
          /\ ~Aggregated
          /\ page[Len(page)] \in {"warning", "info", "markdown"}
          /\ (data_source_label # "" /\ ~InPage("error"))
                => page[Len(page)] = "warning"

C9_Witness ==
    /\ pc = "done"
    /\ df = Frame(<<>>)
    /\ page[Len(page)] = "warning"

NumericCell(x) == x.k \in {"num", "nan", "inf"}

\* C10: after the display strings are built by_platform still holds numbers:
\* its sums are those of the record set, and the efficiency chart has exactly
\* the platforms whose cost_per_conv is not absent, with that number.
C10_DisplayLeavesNumbers ==
    Assigned(display_df) =>
        /\ \A i \in DOMAIN by_platform.rows :
              LET r == by_platform.rows[i]
                  I == Indices(df.rows, r.platform)
              IN  /\ r.spend = Num(SumAt(df.rows, "spend", I), 100)
                  /\ r.impressions = Num(SumAt(df.rows, "impressions", I), 1)
                  /\ r.clicks = Num(SumAt(df.rows, "clicks", I), 1)
                  /\ r.conversions = Num(SumAt(df.rows, "conversions", I), 1)
                  /\ NumericCell(r.ctr_pct) /\ NumericCell(r.cost_per_conv)
                  /\ NumericCell(r.share_of_spend)
                  /\ display_df.rows[i].spend.k = "str"
        /\ Assigned(eff) =>
              /\ {eff.rows[i].platform : i \in DOMAIN eff.rows}
                    = {df.rows[k].platform : k \in
                         {k \in DOMAIN df.rows :
                            SumAt(df.rows, "conversions",
                                  Indices(df.rows, df.rows[k].platform)) > 0}}
              /\ \A i \in DOMAIN eff.rows : IsNum(eff.rows[i].cost_per_conv)
              /\ Assigned(fig_cpa) => fig_cpa.data[1].y = Column(eff.rows, "cost_per_conv")

C10_Witness ==
    /\ Assigned(eff) /\ Assigned(fig_cpa)
    /\ Len(eff.rows) = 1
    /\ Len(by_platform.rows) = 2

====
